---- MODULE Spec2Model ----
(***************************************************************************)
(* Model of streamlit_app_chat_Zeyneb.py: four form panels (three product  *)
(* search tabs az/en/ru and one organization tab) that forward a query to  *)
(* a remote API and render the response.                                   *)
(*                                                                         *)
(* One script run handles one form submission.  The run blocks on each     *)
(* requests.post, so it is cut at those calls: Submit runs up to the first *)
(* call, SpellReturn from the spelling response up to the main call,       *)
(* SearchReturn / OrgReturn from the main response to the end of the run.  *)
(* Strings are sequences of one-character strings.  Python values whose    *)
(* truthiness the code tests are tagged with their Python type.  Of a      *)
(* result block the title, the code / name line and the score line are     *)
(* modelled; the hierarchy, path and tradings lines and the sidebar health *)
(* check are not.                                                          *)
(***************************************************************************)
EXTENDS Integers, Sequences, FiniteSets, TLC

VARIABLES pc, tab, query, size, use_vector, alpha, use_spelling,
          search_query, spell_response, response, calls, display

vars == <<pc, tab, query, size, use_vector, alpha, use_spelling,
          search_query, spell_response, response, calls, display>>

-----------------------------------------------------------------------------
(* Bounds of the model *)

MaxLen == 2
MaxHits == 2

(* Program constants; alpha is counted in tenths *)
SpellTimeout == 10
SearchTimeout == 30
MinSize == 1
MaxSize == 50
DefaultAlpha == 5

-----------------------------------------------------------------------------
(* Input alphabets *)

Whitespace == {" "}
Chars == Whitespace \cup {"a"}

RECURSIVE StringsOfLen(_)
StringsOfLen(n) ==
    IF n = 0 THEN {<<>>}
    ELSE {Append(s, c) : s \in StringsOfLen(n - 1), c \in Chars}

Queries == UNION {StringsOfLen(n) : n \in 0..MaxLen}

Languages == {"az", "en", "ru"}
Panels == Languages \cup {"org"}
Sizes == {MinSize, MaxSize}
Alphas == {DefaultAlpha, 10}

-----------------------------------------------------------------------------
(* Python values *)

PyNone == [type |-> "NoneType", val |-> 0]
Float(n) == [type |-> "float", val |-> n]
Dict(d) == [type |-> "dict", val |-> d]

(* bool(v): None, 0 / 0.0 and the empty dict are false *)
Truthy(v) ==
    CASE v.type = "NoneType" -> FALSE
      [] v.type = "float" -> v.val # 0
      [] v.type = "dict" -> DOMAIN v.val # {}

(* a or b *)
PyOr(a, b) == IF Truthy(a) THEN a ELSE b

EmptyDict == [k \in {} |-> 0]
Restrict(f, D) == [k \in D |-> f[k]]

(* d.get(k, default) *)
Get(d, k, default) == IF k \in DOMAIN d THEN d[k] ELSE default

(* d.get(k): None when the key is missing *)
GetOrNone(d, k) == Get(d, k, PyNone)

(* str.strip(): drop leading and trailing whitespace *)
RECURSIVE LStrip(_)
LStrip(s) ==
    IF s # <<>> /\ Head(s) \in Whitespace THEN LStrip(Tail(s)) ELSE s

RECURSIVE RStrip(_)
RStrip(s) ==
    IF s # <<>> /\ s[Len(s)] \in Whitespace
    THEN RStrip(SubSeq(s, 1, Len(s) - 1))
    ELSE s

(* fault variant of Strip: the query is tested as typed *)
StripNothing(s) == s

Strip(s) == RStrip(LStrip(s))

-----------------------------------------------------------------------------
(* Exceptions *)

(* subclasses of requests.exceptions.RequestException; response.json()     *)
(* raises requests' JSONDecodeError (a RequestException) or a plain        *)
(* ValueError, depending on the installed version of requests              *)
RequestExceptions == {"Timeout", "ConnectionError", "HTTPError", "JSONDecodeError"}
DecodeErrors == {"JSONDecodeError", "ValueError"}
(* the classes json() can raise on response r *)
DecodeErrorsOn(r) == IF r.body = "undecodable" THEN DecodeErrors ELSE {"none"}
IsRequestException(e) == e \in RequestExceptions
IsTimeout(e) == e = "Timeout"

-----------------------------------------------------------------------------
(* What the remote API can answer to one requests.post *)

Statuses == {200, 404, 500}
TransportFailures == {"Timeout", "ConnectionError"}

NoResponse == [exc |-> "pending", status |-> 0, body |-> "none", json |-> EmptyDict]
Raised(e) == [exc |-> e, status |-> 0, body |-> "none", json |-> EmptyDict]
Answer(s, b, j) == [exc |-> "none", status |-> s, body |-> b, json |-> j]

(* response.raise_for_status() *)
RaisesForStatus(s) == s >= 400 /\ s < 600

-----------------------------------------------------------------------------
(* Response bodies of the remote API *)

(* POST /spellingcorrection *)
CorrectedPool == {<<"a">>, <<"a", "a">>}
SpellJsons == {EmptyDict} \cup {[corrected_query |-> c] : c \in CorrectedPool}
SpellOutcomes ==
    {Raised(e) : e \in TransportFailures}
    \cup {Answer(s, "undecodable", EmptyDict) : s \in Statuses}
    \cup {Answer(200, "nondict", EmptyDict)}
    \cup {Answer(200, "dict", j) : j \in SpellJsons}

(* product records: a hit is either {"_source": record, "_score": s} or    *)
(* the record itself                                                       *)
NameValues == [name_az_d4 |-> "Ad (az)", name_en_d4 |-> "Name (en)",
               name_ru_d4 |-> "Imya (ru)"]
NameKeys == DOMAIN NameValues
CodeValue == "1234"
Optional(S) == {<<>>} \cup {<<v>> : v \in S}

(* the keys in keys, "code" when hasCode, "score" / "_score" when given *)
Record(keys, hasCode, score, uscore) ==
    [k \in keys \cup (IF hasCode THEN {"code"} ELSE {})
              \cup (IF score # <<>> THEN {"score"} ELSE {})
              \cup (IF uscore # <<>> THEN {"_score"} ELSE {}) |->
        CASE k = "code" -> CodeValue
          [] k = "score" -> score[1]
          [] k = "_score" -> uscore[1]
          [] OTHER -> NameValues[k]]

Wrapped(source, uscore) ==
    [k \in {"_source"} \cup (IF uscore # <<>> THEN {"_score"} ELSE {}) |->
        IF k = "_source" THEN source ELSE uscore[1]]

NameSets == {{}} \cup {{k} : k \in NameKeys}
HitScores == Optional({PyNone, Float(0), Float(12500)})
SourceScores == Optional({Float(0), Float(5000)})

ProductHits ==
    {Record(ks, c, s, u) : ks \in NameSets, c \in BOOLEAN,
                           s \in SourceScores, u \in HitScores}
    \cup {Wrapped(Record(ks, c, s, <<>>), u) :
              ks \in NameSets, c \in BOOLEAN,
              s \in SourceScores, u \in HitScores}

(* the hits the search endpoint answers with in whole responses *)
ResponseHits ==
    { Wrapped(Record({"name_az_d4"}, TRUE, <<>>, <<>>), <<Float(12500)>>),
      Record({"name_en_d4"}, TRUE, <<>>, <<>>),
      Record({}, FALSE, <<>>, <<>>) }

(* organizations *)
OrgNames == {"UN", "WHO"}
Org(name, score) ==
    [k \in (IF name # <<>> THEN {"name"} ELSE {})
           \cup (IF score # <<>> THEN {"score"} ELSE {}) |->
        IF k = "name" THEN name[1] ELSE score[1]]
Organizations ==
    {Org(n, s) : n \in Optional(OrgNames),
                 s \in Optional({PyNone, Float(0), Float(5000)})}
ResponseOrgs ==
    { Org(<<"UN">>, <<Float(5000)>>), Org(<<"WHO">>, <<>>), Org(<<>>, <<>>) }

RECURSIVE SeqsUpTo(_, _)
SeqsUpTo(S, n) ==
    IF n = 0 THEN {<<>>}
    ELSE LET shorter == SeqsUpTo(S, n - 1)
         IN  shorter \cup {Append(s, x) : s \in {t \in shorter : Len(t) = n - 1}, x \in S}

TotalHits == {0, 7}

(* JSON objects with any subset of the two keys the panels read *)
ResultJsons(listKey, items) ==
    {Restrict([k \in {"total-hits", listKey} |->
                  IF k = "total-hits" THEN t ELSE hs], D) :
        t \in TotalHits, hs \in SeqsUpTo(items, MaxHits),
        D \in SUBSET {"total-hits", listKey}}

MainOutcomes(listKey, items) ==
    {Raised(e) : e \in TransportFailures}
    \cup {Answer(s, "undecodable", EmptyDict) : s \in Statuses}
    \cup {Answer(200, "dict", j) : j \in ResultJsons(listKey, items)}

SearchOutcomes == MainOutcomes("Ranked-objects", ResponseHits)
OrgOutcomes == MainOutcomes("results", ResponseOrgs)

-----------------------------------------------------------------------------
(* What the page shows: st.warning / st.info / st.success / st.error,      *)
(* st.expander blocks with their st.markdown lines, and the traceback      *)
(* Streamlit prints when an exception leaves the script                    *)

Msg(kind, text, arg) == [kind |-> kind, text |-> text, arg |-> arg]
Line(label, value) == Msg("markdown", label, value)
Expander(i, title, lines) ==
    Msg("expander", title, [index |-> i, lines |-> lines])
Uncaught(e) == Msg("exception", "Traceback", e)

(* requests.post(url, json=..., timeout=...) *)
Call(url, json, timeout) == [url |-> url, json |-> json, timeout |-> timeout]

SpellingEndpoint == <<"spellingcorrection">>
OrganizationsEndpoint == <<"organizations">>
(* fault variant of SearchEndpoint: every tab posts to the az endpoint *)
AzEndpoint(language) == <<"search", "az">>
SearchEndpoint(language) == <<"search", language>>

SpellingCall(q) == Call(SpellingEndpoint, [query |-> q], SpellTimeout)
SearchCall(q, n, v, a, language) ==
    Call(SearchEndpoint(language),
         [query |-> q, size |-> n, alpha |-> a, use_vector |-> v],
         SearchTimeout)
OrganizationsCall(term, n) ==
    Call(OrganizationsEndpoint,
         [search_term |-> term, index |-> "organizations_v3", size |-> n],
         SearchTimeout)

-----------------------------------------------------------------------------
(* search_api, spelling part *)

(* the exception the try body raises on response r, "none" if it raises    *)
(* nothing; de is the class response.json() raises on an undecodable body  *)
SpellingRaises(r, de) ==
    IF r.exc # "none" THEN r.exc
    ELSE IF r.status # 200 THEN "none"
    ELSE IF r.body = "undecodable" THEN de
    ELSE IF r.body = "nondict" THEN "AttributeError"
    ELSE "none"

(* fault variant of SpellingCatches: except RequestException *)
CatchesRequestException(e) == IsRequestException(e)

(* except Exception *)
SpellingCatches(e) == TRUE

(* fault variant of Corrected: the field is read under another key *)
WrongKeyCorrected(spell_data, q) == Get(spell_data, "correctedQuery", q)

(* spell_data.get("corrected_query", query) *)
Corrected(spell_data, q) == Get(spell_data, "corrected_query", q)

(* the query the main call carries, what is shown, and the exception that  *)
(* leaves search_api ("none" when the main call is reached)                *)
SpellingCorrection(q, r, de) ==
    LET e == SpellingRaises(r, de)
        unchanged == [search_query |-> q, msgs |-> <<>>, propagated |-> "none"]
    IN  IF e # "none"
        THEN IF SpellingCatches(e)
             THEN [unchanged EXCEPT
                     !.msgs = <<Msg("warning", "Spelling correction unavailable", e)>>]
             ELSE [unchanged EXCEPT !.propagated = e]
        ELSE IF r.status = 200
        THEN LET corrected == Corrected(r.json, q)
             IN  IF corrected # q
                 THEN [search_query |-> corrected,
                       msgs |-> <<Msg("info", "Using corrected query", corrected)>>,
                       propagated |-> "none"]
                 ELSE unchanged
        ELSE unchanged

-----------------------------------------------------------------------------
(* search_api, main call, and search_organizations *)

(* the exception raised by raise_for_status() / json() on response r *)
MainRaises(r, de) ==
    IF r.exc # "none" THEN r.exc
    ELSE IF RaisesForStatus(r.status) THEN "HTTPError"
    ELSE IF r.body = "undecodable" THEN de
    ELSE "none"

TimedOut == Msg("error", "Request timed out. Please try again.", "")
RequestFailed(e, r) == Msg("error", "Request failed", <<e, r.status>>)

(* the returned value, what is shown, and the exception that escapes *)
SearchApiReturn(r, de) ==
    LET e == MainRaises(r, de)
    IN  IF e = "none"
        THEN [result |-> Dict(r.json), msgs |-> <<>>, propagated |-> "none"]
        ELSE IF IsTimeout(e)
        THEN [result |-> PyNone, msgs |-> <<TimedOut>>, propagated |-> "none"]
        ELSE IF IsRequestException(e)
        THEN [result |-> PyNone, msgs |-> <<RequestFailed(e, r)>>, propagated |-> "none"]
        ELSE [result |-> PyNone, msgs |-> <<>>, propagated |-> e]

SearchOrganizationsReturn(r, de) ==
    LET e == MainRaises(r, de)
    IN  IF e = "none"
        THEN [result |-> Dict(r.json), msgs |-> <<>>, propagated |-> "none"]
        ELSE IF IsRequestException(e)
        THEN [result |-> PyNone, msgs |-> <<RequestFailed(e, r)>>, propagated |-> "none"]
        ELSE [result |-> PyNone, msgs |-> <<>>, propagated |-> e]

-----------------------------------------------------------------------------
(* Result rendering of the three product tabs and of the organization tab *)

(* fault variant of NameKey: every tab reads the az name *)
AzNameKey(language) == "name_az_d4"

(* the depth-4 name field each tab reads *)
NameKey(language) ==
    CASE language = "az" -> "name_az_d4"
      [] language = "en" -> "name_en_d4"
      [] language = "ru" -> "name_ru_d4"

(* source.get('name_<l>_d4', source.get('code', 'No Name')) *)
NameDisplay(language, source) ==
    Get(source, NameKey(language), Get(source, "code", "No Name"))

(* hit.get('_score') or source.get('score') *)
ProductScore(hit, source) ==
    PyOr(GetOrNone(hit, "_score"), GetOrNone(source, "score"))

(* if score: st.markdown(f"**Score:** {score:.4f}") ; scores are counted   *)
(* in units of 0.0001, so the four decimals are exact                      *)
ScoreLines(score) ==
    IF Truthy(score) THEN <<Line("Score", score.val)>> ELSE <<>>

ProductBlock(language, i, hit) ==
    LET source == Get(hit, "_source", hit)
    IN  Expander(i, NameDisplay(language, source),
                 <<Line("Code", Get(source, "code", "N/A"))>>
                 \o ScoreLines(ProductScore(hit, source)))

OrgBlock(i, org) ==
    Expander(i, Get(org, "name", "N/A"),
             <<Line("Name", Get(org, "name", "N/A"))>>
             \o ScoreLines(GetOrNone(org, "score")))

NoResults == Msg("info", "No results found.", "")

(* if result: ... in a product tab *)
RenderSearch(language, result) ==
    IF Truthy(result)
    THEN LET hits == Get(result.val, "Ranked-objects", <<>>)
         IN  <<Msg("success", "Found hits", Get(result.val, "total-hits", 0))>>
             \o (IF Len(hits) = 0
                 THEN <<NoResults>>
                 ELSE [i \in 1..Len(hits) |-> ProductBlock(language, i, hits[i])])
    ELSE <<>>

(* fault variant of FoundCount: the number of results received *)
CountOfResults(result) == Len(Get(result, "results", <<>>))

(* result.get('total-hits', 0) *)
FoundCount(result) == Get(result, "total-hits", 0)

(* if result: ... in the organization tab *)
RenderOrganizations(result) ==
    IF Truthy(result)
    THEN LET orgs == Get(result.val, "results", <<>>)
         IN  <<Msg("success", "Found organizations", FoundCount(result.val))>>
             \o (IF Len(orgs) = 0
                 THEN <<NoResults>>
                 ELSE [i \in 1..Len(orgs) |-> OrgBlock(i, orgs[i])])
    ELSE <<>>

-----------------------------------------------------------------------------
(* The pipeline of one form submission *)

Init ==
    /\ pc = "idle"
    /\ tab = "az"
    /\ query = <<>>
    /\ size = 10
    /\ use_vector = TRUE
    /\ alpha = DefaultAlpha
    /\ use_spelling = FALSE
    /\ search_query = <<>>
    /\ spell_response = NoResponse
    /\ response = NoResponse
    /\ calls = <<>>
    /\ display = <<>>

(* the form of panel p is submitted: Streamlit runs the script from the    *)
(* top, the page is drawn anew, and the `if submitted_...:` branch of p    *)
(* runs up to its first network call.  A later submission is a new run of  *)
(* the script that starts from Init again: nothing of this run is read by  *)
(* the next.  In the organization tab q is search_term, n is org_size      *)
Submit(p, q, n, v, a, s) ==
    /\ pc = "idle"
    /\ tab' = p
    /\ query' = q
    /\ size' = n
    /\ use_vector' = v
    /\ alpha' = a
    /\ use_spelling' = s
    /\ spell_response' = NoResponse
    /\ response' = NoResponse
    /\ IF Strip(q) = <<>>
       THEN /\ display' = <<Msg("warning",
                                IF p = "org" THEN "Please enter a search term."
                                             ELSE "Please enter a query.", "")>>
            /\ calls' = <<>>
            /\ search_query' = <<>>
            /\ pc' = "done"
       ELSE /\ display' = <<>>
            /\ search_query' = q
            /\ IF p = "org"
               THEN /\ calls' = <<OrganizationsCall(q, n)>>
                    /\ pc' = "org_wait"
               ELSE IF s
               THEN /\ calls' = <<SpellingCall(q)>>
                    /\ pc' = "spell_wait"
               ELSE /\ calls' = <<SearchCall(q, n, v, a, p)>>
                    /\ pc' = "main_wait"

(* the spelling call ends with r; search_api goes on to the main call *)
SpellReturn(r, de) ==
    /\ pc = "spell_wait"
    /\ spell_response' = r
    /\ LET out == SpellingCorrection(query, r, de)
       IN  IF out.propagated # "none"
           THEN /\ display' = display \o <<Uncaught(out.propagated)>>
                /\ UNCHANGED <<search_query, calls>>
                /\ pc' = "done"
           ELSE /\ display' = display \o out.msgs
                /\ search_query' = out.search_query
                /\ calls' = Append(calls, SearchCall(out.search_query, size,
                                                    use_vector, alpha, tab))
                /\ pc' = "main_wait"
    /\ UNCHANGED <<tab, query, size, use_vector, alpha, use_spelling, response>>

(* the main search call ends with r; the tab renders what search_api returns *)
SearchReturn(r, de) ==
    /\ pc = "main_wait"
    /\ response' = r
    /\ LET out == SearchApiReturn(r, de)
       IN  display' = IF out.propagated # "none"
                      THEN display \o <<Uncaught(out.propagated)>>
                      ELSE display \o out.msgs \o RenderSearch(tab, out.result)
    /\ pc' = "done"
    /\ UNCHANGED <<tab, query, size, use_vector, alpha, use_spelling,
                   search_query, spell_response, calls>>

(* the organization call ends with r; the tab renders the result *)
OrgReturn(r, de) ==
    /\ pc = "org_wait"
    /\ response' = r
    /\ LET out == SearchOrganizationsReturn(r, de)
       IN  display' = IF out.propagated # "none"
                      THEN display \o <<Uncaught(out.propagated)>>
                      ELSE display \o out.msgs \o RenderOrganizations(out.result)
    /\ pc' = "done"
    /\ UNCHANGED <<tab, query, size, use_vector, alpha, use_spelling,
                   search_query, spell_response, calls>>

SubmitSearch ==
    \E p \in Languages, q \in Queries, n \in Sizes, v \in BOOLEAN,
       a \in Alphas, s \in BOOLEAN : Submit(p, q, n, v, a, s)

SubmitOrganizations ==
    \E q \in Queries, n \in Sizes : Submit("org", q, n, TRUE, DefaultAlpha, FALSE)

SpellingAnswered ==
    \E r \in SpellOutcomes : \E de \in DecodeErrorsOn(r) : SpellReturn(r, de)

SearchAnswered ==
    \E r \in SearchOutcomes : \E de \in DecodeErrorsOn(r) : SearchReturn(r, de)

OrganizationsAnswered ==
    \E r \in OrgOutcomes : \E de \in DecodeErrorsOn(r) : OrgReturn(r, de)

Next ==
    \/ SubmitSearch
    \/ SubmitOrganizations
    \/ SpellingAnswered
    \/ SearchAnswered
    \/ OrganizationsAnswered

Spec == Init /\ [][Next]_vars

-----------------------------------------------------------------------------
(* Rendering alone: a search function has returned a result holding one    *)
(* hit, any hit of ProductHits / Organizations, and the tab renders it     *)

OneHit(listKey, hit) ==
    Answer(200, "dict", [k \in {"total-hits", listKey} |->
                            IF k = "total-hits" THEN 1 ELSE <<hit>>])

InitRender ==
    /\ pc = "render"
    /\ tab \in Panels
    /\ query = <<"a">>
    /\ size \in Sizes
    /\ use_vector = TRUE
    /\ alpha = DefaultAlpha
    /\ use_spelling = FALSE
    /\ search_query = query
    /\ spell_response = NoResponse
    /\ response \in IF tab = "org"
                    THEN {OneHit("results", o) : o \in Organizations}
                    ELSE {OneHit("Ranked-objects", h) : h \in ProductHits}
    /\ calls = IF tab = "org"
               THEN <<OrganizationsCall(query, size)>>
               ELSE <<SearchCall(query, size, use_vector, alpha, tab)>>
    /\ display = <<>>

RenderProductTab ==
    /\ pc = "render"
    /\ tab \in Languages
    /\ display' = display \o RenderSearch(tab, Dict(response.json))
    /\ pc' = "done"
    /\ UNCHANGED <<tab, query, size, use_vector, alpha, use_spelling,
                   search_query, spell_response, response, calls>>

RenderOrganizationTab ==
    /\ pc = "render"
    /\ tab = "org"
    /\ display' = display \o RenderOrganizations(Dict(response.json))
    /\ pc' = "done"
    /\ UNCHANGED <<tab, query, size, use_vector, alpha, use_spelling,
                   search_query, spell_response, response, calls>>

NextRender == RenderProductTab \/ RenderOrganizationTab

SpecRender == InitRender /\ [][NextRender]_vars

-----------------------------------------------------------------------------
(* Vocabulary of the properties *)

AllWhitespace(q) == \A i \in DOMAIN q : q[i] \in Whitespace
Shown(kind) == {i \in DOMAIN display : display[i].kind = kind}
ShownText(kind, text) ==
    {i \in DOMAIN display : display[i].kind = kind /\ display[i].text = text}
Urls == [i \in DOMAIN calls |-> calls[i].url]
OwnEndpoint == IF tab = "org" THEN <<"organizations">> ELSE <<"search", tab>>

SpellingAnsweredWith(r) == use_spelling /\ tab \in Languages /\ r.exc # "pending"
(* non-200 status, timeout, connection error, or 200 with an undecodable body *)
SpellingFailed(r) ==
    \/ r.exc \in TransportFailures
    \/ r.exc = "none" /\ (r.status # 200 \/ r.body = "undecodable")

MainAnswered == pc = "done" /\ response.exc # "pending"
MainFailed == response.exc \in TransportFailures
              \/ (response.exc = "none" /\ ~(response.status \in 200..299))
MainSucceeded == response.exc = "none" /\ response.status \in 200..299
                 /\ response.body = "dict"
ListKey == IF tab = "org" THEN "results" ELSE "Ranked-objects"
Items == IF ListKey \in DOMAIN response.json THEN response.json[ListKey] ELSE <<>>

-----------------------------------------------------------------------------
(* C1: a submission whose query or search term is empty or whitespace-only *)
(* issues no network call and shows a warning and nothing else.            *)
C1_BlankSubmissionSendsNothing ==
    (pc # "idle" /\ AllWhitespace(query)) =>
        /\ pc = "done"
        /\ calls = <<>>
        /\ Len(display) = 1
        /\ display[1].kind = "warning"

C1_Witness ==
    /\ pc = "done"
    /\ Len(query) > 0
    /\ AllWhitespace(query)
    /\ calls = <<>>
    /\ Shown("warning") = {1}

(* C2: when the spelling call failed in any way, the main search request   *)
(* to /search/{language} is still issued and carries the raw query.        *)
C2_SearchProceedsAfterSpellingFailure ==
    (SpellingAnsweredWith(spell_response) /\ SpellingFailed(spell_response)) =>
        /\ pc \in {"main_wait", "done"}
        /\ Len(calls) = 2
        /\ calls[2].url = <<"search", tab>>
        /\ calls[2].json.query = query

C2_Witness ==
    /\ SpellingAnsweredWith(spell_response)
    /\ spell_response.status = 200
    /\ spell_response.body = "undecodable"
    /\ Len(calls) = 2
    /\ calls[2].json.query = query

(* C3: every kind of spelling failure (non-200 status, timeout, exception) *)
(* shows a warning about the failed spelling correction and no error.      *)
C3_WarningOnEverySpellingFailure ==
    (SpellingAnsweredWith(spell_response) /\ SpellingFailed(spell_response)) =>
        /\ ShownText("warning", "Spelling correction unavailable") # {}
        /\ pc = "main_wait" => Shown("error") = {}

(* C4: with spelling on and a 200 answer, a corrected query that differs   *)
(* from the raw query replaces it in the payload and a note is shown; an   *)
(* equal or missing one leaves the raw query and shows no note.  With      *)
(* spelling off there is no spelling call and the payload is the raw query.*)
C4_CorrectedQueryUsedOnlyWhenDifferent ==
    /\ (SpellingAnsweredWith(spell_response) /\ spell_response.exc = "none"
        /\ spell_response.status = 200 /\ spell_response.body = "dict") =>
          LET j == spell_response.json
              c == IF "corrected_query" \in DOMAIN j THEN j["corrected_query"] ELSE query
              notes == ShownText("info", "Using corrected query")
          IN  /\ Len(calls) = 2
              /\ calls[2].url = <<"search", tab>>
              /\ IF c # query
                 THEN /\ calls[2].json.query = c
                      /\ \E i \in notes : display[i].arg = c
                 ELSE /\ calls[2].json.query = query
                      /\ notes = {}
    /\ (tab \in Languages /\ ~use_spelling /\ pc \in {"main_wait", "done"}
        /\ ~AllWhitespace(query)) =>
          /\ Len(calls) = 1
          /\ calls[1].url = <<"search", tab>>
          /\ calls[1].json.query = query
          /\ ShownText("info", "Using corrected query") = {}

C4_Witness ==
    /\ pc = "done"
    /\ SpellingAnsweredWith(spell_response)
    /\ spell_response.status = 200
    /\ "corrected_query" \in DOMAIN spell_response.json
    /\ calls[2].json.query # query
    /\ ShownText("info", "Using corrected query") # {}

(* C5: in the product tabs and in the organization tab alike, a timeout of *)
(* the main call shows the distinct "request timed out" message, and no    *)
(* failure shows a hit count or a result block.                            *)
C5_TimeoutMessageInEveryPanel ==
    /\ (MainAnswered /\ response.exc = "Timeout") =>
          /\ \E i \in Shown("error") : display[i] = TimedOut
          /\ ShownText("error", "Request failed") = {}
    /\ (MainAnswered /\ MainFailed) =>
          /\ Shown("success") = {}
          /\ Shown("expander") = {}
          /\ ShownText("info", "No results found.") = {}

(* C6: a successful response with zero hits, whatever else its body has or *)
(* lacks, shows the "no results" indicator and no error.                   *)
C6_NoResultsIndicatorOnZeroHits ==
    (MainAnswered /\ MainSucceeded /\ Len(Items) = 0) =>
        /\ ShownText("info", "No results found.") # {}
        /\ Shown("error") = {}

(* C7: in the tab of language L a product block is titled with the hit's   *)
(* depth-4 name for L when present, else with the record's code when       *)
(* present, else with "No Name"; never with another language's name.       *)
OwnNameKey == [az |-> "name_az_d4", en |-> "name_en_d4", ru |-> "name_ru_d4"]

C7_TitleFallback ==
    (pc = "done" /\ tab \in Languages /\ MainSucceeded /\ Len(Items) > 0) =>
        \A i \in DOMAIN Items :
            LET hit == Items[i]
                rec == IF "_source" \in DOMAIN hit THEN hit["_source"] ELSE hit
                own == OwnNameKey[tab]
                blocks == {b \in Shown("expander") : display[b].arg.index = i}
            IN  /\ blocks # {}
                /\ \A b \in blocks :
                     /\ display[b].text =
                           IF own \in DOMAIN rec THEN rec[own]
                           ELSE IF "code" \in DOMAIN rec THEN rec["code"]
                           ELSE "No Name"
                     /\ display[b].text \notin
                           {NameValues[k] : k \in NameKeys \ {own}}

C7_Witness ==
    /\ pc = "done"
    /\ tab = "ru"
    /\ MainSucceeded
    /\ Len(Items) = 1
    /\ "_source" \in DOMAIN Items[1]
    /\ DOMAIN Items[1]["_source"] = {"name_en_d4", "code"}
    /\ \E b \in Shown("expander") : display[b].text = CodeValue

(* C8: the score line of a product or organization block is shown exactly  *)
(* when the result carries a numeric score, 0 included, and is omitted     *)
(* exactly when the score is absent or null.                               *)
IsNumber(d, k) == k \in DOMAIN d /\ d[k].type = "float"

C8_ScoreLineIffScorePresent ==
    (pc = "done" /\ MainSucceeded /\ Len(Items) > 0) =>
        \A i \in DOMAIN Items :
            LET hit == Items[i]
                rec == IF tab # "org" /\ "_source" \in DOMAIN hit
                       THEN hit["_source"] ELSE hit
                carries == IF tab = "org" THEN IsNumber(hit, "score")
                           ELSE IsNumber(hit, "_score") \/ IsNumber(rec, "score")
            IN  \A b \in Shown("expander") :
                    display[b].arg.index = i =>
                        (carries <=>
                           \E l \in DOMAIN display[b].arg.lines :
                               display[b].arg.lines[l].text = "Score")

(* C9: a successful organization response with N >= 1 results renders      *)
(* exactly N blocks, in response order, numbered 1..N, under a "Found T    *)
(* organizations" message where T is the response's total-hits value.      *)
C9_OneBlockPerOrganization ==
    (pc = "done" /\ tab = "org" /\ MainSucceeded /\ Len(Items) >= 1) =>
        /\ Len(display) = Len(Items) + 1
        /\ display[1].kind = "success"
        /\ display[1].text = "Found organizations"
        /\ display[1].arg = IF "total-hits" \in DOMAIN response.json
                            THEN response.json["total-hits"] ELSE 0
        /\ \A i \in DOMAIN Items :
             /\ display[i + 1].kind = "expander"
             /\ display[i + 1].arg.index = i
             /\ display[i + 1].text =
                   IF "name" \in DOMAIN Items[i] THEN Items[i]["name"] ELSE "N/A"

C9_Witness ==
    /\ pc = "done"
    /\ tab = "org"
    /\ MainSucceeded
    /\ Len(Items) = 2
    /\ "total-hits" \in DOMAIN response.json
    /\ response.json["total-hits"] = 7
    /\ size = MinSize
    /\ display[2].text = "WHO"
    /\ display[3].text = "UN"

(* C10: one submission of a non-empty query issues the spelling call once  *)
(* when spelling is on and never otherwise, then the main call once, to    *)
(* the panel's own endpoint and only after the spelling call has ended;    *)
(* nothing is called again after a failure.                                *)
C10_CallSequence ==
    (pc # "idle" /\ ~AllWhitespace(query)) =>
        /\ pc = "spell_wait" =>
              Urls = <<SpellingEndpoint>> /\ use_spelling /\ tab \in Languages
        /\ pc \in {"main_wait", "org_wait", "done"} =>
              Urls = IF use_spelling /\ tab \in Languages
                     THEN <<SpellingEndpoint, OwnEndpoint>>
                     ELSE <<OwnEndpoint>>
        /\ Len(calls) = 2 => spell_response.exc # "pending"
        /\ pc \in {"spell_wait", "main_wait", "org_wait"} => response.exc = "pending"

C10_Witness ==
    /\ pc = "done"
    /\ tab = "ru"
    /\ use_spelling
    /\ spell_response.exc = "Timeout"
    /\ response.exc = "Timeout"
    /\ Urls = <<SpellingEndpoint, <<"search", "ru">>>>

====
